---- MODULE Spec2Model ----
(***************************************************************************)
(* Breadth-first simulation of a nondeterministic Turing machine, after    *)
(* simulate_ntm in traceTM_spickfor.py.  One behaviour of the model is one *)
(* call of simulate_ntm: the initial state is the state after lines 26-42, *)
(* and each action is one pass through the body of the inner loop (one     *)
(* configuration of the current level) or the code that follows it.        *)
(*                                                                         *)
(* A tape (a Python string) is a sequence of one-character symbols; a      *)
(* configuration is the tuple <<left, state, right>> of line 37.           *)
(***************************************************************************)
EXTENDS Integers, Sequences, FiniteSets, TLC

VARIABLES
    transitions,        \* the rule table of the definition, in file order
    start_state,        \* the definition's start state
    accept_state,       \* the definition's accept state
    reject_state,       \* the definition's reject state
    input_string,       \* the input string of the call
    max_depth,          \* the max_depth argument of the call
    configurations,     \* the levels built so far, configurations[d+1] = level d
    new_configurations, \* the next level, under construction
    depth,              \* the loop variable of `for depth in range(max_depth)`
    idx,                \* position of the inner loop in configurations[-1]
    transition_count,
    non_leaf_count,
    outcome,            \* "Running", "Accepted", "Rejected" or "DepthExhausted"
    message,            \* the verdict messages written so far
    trace               \* the traces written so far

defn == <<transitions, start_state, accept_state, reject_state,
          input_string, max_depth>>

vars == <<transitions, start_state, accept_state, reject_state, input_string,
          max_depth, configurations, new_configurations, depth, idx,
          transition_count, non_leaf_count, outcome, message, trace>>

----------------------------------------------------------------------------
(* Bounds of the model. *)

MaxRules == 3
MaxInput == 2
MaxDepth == 4

(* max_depth=20, the default of simulate_ntm, used by every call of the    *)
(* driver.                                                                 *)
DefaultMaxDepth == 20

----------------------------------------------------------------------------
(* The inputs: machine definitions, input strings, depth bounds.           *)

Blank == "_"

States == {"q0", "qacc", "qrej"}

InputAlphabet == {"a", "b"}

(* The rules a definition's table is drawn from, as rows                   *)
(* (fromState, readSymbol, toState, writeSymbol, move) in file order.      *)
RulePool ==
    << <<"q0",   "a", "q0",   "a", "R">>,
       <<"q0",   "a", "q0",   "b", "L">>,
       <<"q0",   "a", "q0",   "b", "S">>,
       <<"q0",   "a", "qacc", "a", "S">>,
       <<"q0",   "a", "qrej", "b", "R">>,
       <<"q0",   "b", "q0",   "a", "L">>,
       <<"q0",   "_", "qacc", "_", "R">>,
       <<"q0",   "_", "q0",   "a", "L">>,
       <<"qrej", "a", "q0",   "a", "R">>,
       <<"qacc", "a", "q0",   "a", "R">>,
       <<"q0",   "b", "qacc", "b", "N">> >>

RECURSIVE Pick(_, _)
Pick(i, S) ==
    IF i > Len(RulePool) THEN << >>
    ELSE (IF i \in S THEN << RulePool[i] >> ELSE << >>) \o Pick(i + 1, S)

(* Every table of at most MaxRules rows of the pool, rows in pool order.   *)
Machines ==
    { Pick(1, S) : S \in { T \in SUBSET (1 .. Len(RulePool)) :
                             Cardinality(T) <= MaxRules } }

(* The machine of the driver's first call: loop right over 'a', accept on  *)
(* blank.                                                                  *)
APlus == << <<"q0", "a", "q0", "a", "R">>, <<"q0", "_", "qacc", "_", "R">> >>

Inputs == UNION { [1 .. n -> InputAlphabet] : n \in 0 .. MaxInput }

Range(s) == { s[i] : i \in 1 .. Len(s) }

----------------------------------------------------------------------------
(* Lines 26-42: the state of a call before the first iteration.            *)

(* Line 37: the single configuration of level 0.                          *)
InitialConfiguration_Blank(q0, w) ==
    << << >>, q0, IF w = << >> THEN << Blank >> ELSE w >>

InitialConfiguration(q0, w) == << << >>, q0, w >>

Start(ts, q0, w, md) ==
    /\ transitions = ts
    /\ start_state = q0
    /\ accept_state = "qacc"
    /\ reject_state = "qrej"
    /\ input_string = w
    /\ max_depth = md
    /\ configurations = << << InitialConfiguration(q0, w) >> >>
    /\ new_configurations = << >>
    /\ depth = 0
    /\ idx = 1
    /\ transition_count = 0
    /\ non_leaf_count = 0
    /\ outcome = "Running"
    /\ message = << >>
    /\ trace = << >>

Init ==
    \/ \E ts \in Machines, q0 \in States, w \in Inputs, md \in 0 .. MaxDepth :
          Start(ts, q0, w, md)
    \/ Start(APlus, "q0", <<"a", "a", "a">>, DefaultMaxDepth)

----------------------------------------------------------------------------
(* Line 42: the set of explicitly defined (state, head) pairs.             *)
explicit_transitions == { <<t[1], t[2]>> : t \in Range(transitions) }

(* Line 64: the symbol under the head.                                     *)
HeadOf(right) == IF right # << >> THEN Head(right) ELSE Blank

(* right[1:] *)
Rest(right) == IF right = << >> THEN << >> ELSE Tail(right)

(* Lines 72-88: the configuration rule t produces from (left, state, right). *)
Apply_NoBlank(t, left, right) ==
    IF t[5] = "R" THEN << Append(left, t[4]), t[3], Rest(right) >>
    ELSE IF t[5] = "L"
    THEN IF Len(left) > 0
         THEN << SubSeq(left, 1, Len(left) - 1), t[3],
                 << left[Len(left)], t[4] >> \o Rest(right) >>
         ELSE << << >>, t[3], << t[4] >> \o Rest(right) >>
    ELSE << left, t[3], << t[4] >> \o Rest(right) >>

Apply_LeftKeepsLast(t, left, right) ==
    IF t[5] = "R"
    THEN << Append(left, t[4]), t[3],
            IF Len(right) > 1 THEN Rest(right) ELSE << Blank >> >>
    ELSE IF t[5] = "L"
    THEN IF Len(left) > 0
         THEN << left, t[3],
                 << left[Len(left)], t[4] >>
                    \o (IF Len(right) > 1 THEN Rest(right) ELSE << >>) >>
         ELSE << << >>, t[3],
                 << t[4] >> \o (IF Len(right) > 1 THEN Rest(right) ELSE << >>) >>
    ELSE << left, t[3],
            << t[4] >> \o (IF Len(right) > 1 THEN Rest(right) ELSE << >>) >>

Apply_StayOnlyS(t, left, right) ==
    IF t[5] = "R"
    THEN << Append(left, t[4]), t[3],
            IF Len(right) > 1 THEN Rest(right) ELSE << Blank >> >>
    ELSE IF t[5] = "S"
    THEN << left, t[3],
            << t[4] >> \o (IF Len(right) > 1 THEN Rest(right) ELSE << >>) >>
    ELSE IF Len(left) > 0
         THEN << SubSeq(left, 1, Len(left) - 1), t[3],
                 << left[Len(left)], t[4] >>
                    \o (IF Len(right) > 1 THEN Rest(right) ELSE << >>) >>
         ELSE << << >>, t[3],
                 << t[4] >> \o (IF Len(right) > 1 THEN Rest(right) ELSE << >>) >>

Apply_RightAppendsHead(t, left, right) ==
    IF t[5] = "R"
    THEN << Append(left, HeadOf(right)), t[3],
            IF Len(right) > 1 THEN Rest(right) ELSE << Blank >> >>
    ELSE IF t[5] = "L"
    THEN IF Len(left) > 0
         THEN << SubSeq(left, 1, Len(left) - 1), t[3],
                 << left[Len(left)], t[4] >>
                    \o (IF Len(right) > 1 THEN Rest(right) ELSE << >>) >>
         ELSE << << >>, t[3],
                 << t[4] >> \o (IF Len(right) > 1 THEN Rest(right) ELSE << >>) >>
    ELSE << left, t[3],
            << t[4] >> \o (IF Len(right) > 1 THEN Rest(right) ELSE << >>) >>

Apply(t, left, right) ==
    LET t_new_state == t[3]
        t_write     == t[4]
        t_move      == t[5]
    IN  IF t_move = "R"
        THEN << Append(left, t_write),
                t_new_state,
                IF Len(right) > 1 THEN Rest(right) ELSE << Blank >> >>
        ELSE IF t_move = "L"
        THEN LET new_right ==
                    << t_write >> \o (IF Len(right) > 1 THEN Rest(right) ELSE << >>)
             IN  IF Len(left) > 0
                 THEN << SubSeq(left, 1, Len(left) - 1),
                         t_new_state,
                         << left[Len(left)] >> \o new_right >>
                 ELSE << << >>, t_new_state, new_right >>
        ELSE << left,
                t_new_state,
                << t_write >> \o (IF Len(right) > 1 THEN Rest(right) ELSE << >>) >>

(* Line 70: rule t matches (state, head).                                  *)
Matches_StateOnly(t, state, head) == t[1] = state

Matches(t, state, head) == t[1] = state /\ t[2] = head

(* Lines 68-89: the successors of a configuration, in table order.         *)
RECURSIVE Successors_ReverseOrder(_, _, _, _)
Successors_ReverseOrder(ts, left, state, right) ==
    IF ts = << >> THEN << >>
    ELSE Successors_ReverseOrder(Tail(ts), left, state, right)
         \o (IF Matches(Head(ts), state, HeadOf(right))
             THEN << Apply(Head(ts), left, right) >>
             ELSE << >>)

RECURSIVE Successors(_, _, _, _)
Successors(ts, left, state, right) ==
    IF ts = << >> THEN << >>
    ELSE (IF Matches(Head(ts), state, HeadOf(right))
          THEN << Apply(Head(ts), left, right) >>
          ELSE << >>)
         \o Successors(Tail(ts), left, state, right)

(* Line 92: the implicit transition to the reject state.                   *)
ImplicitReject_Never(state, head) == FALSE

ImplicitReject_Always(state, head) == TRUE

ImplicitReject(state, head) == <<state, head>> \notin explicit_transitions

(* Line 44: the bound of the outer loop, range(max_depth).                 *)
LoopBound_OneMore == max_depth + 1

LoopBound == max_depth

InLoop == outcome = "Running" /\ depth < LoopBound

Level == configurations[Len(configurations)]

(* Lines 51-54: the accept message.                                        *)
AcceptMessage_NextDepth ==
    [verdict |-> "Accepted", transitions |-> depth + 1,
     depth_of_tree |-> depth + 1]

AcceptMessage ==
    [verdict |-> "Accepted", transitions |-> depth, depth_of_tree |-> depth]

(* Lines 102-105: the reject message.                                      *)
RejectMessage ==
    [verdict |-> "Rejected", transitions |-> depth, depth_of_tree |-> depth]

(* Lines 153-157: the nondeterminism ratio as print_trace prints it with   *)
(* format .2f, in hundredths; -1 stands for "Undefined".  The quotient is  *)
(* rounded to the nearest hundredth, a tie to the even one.                *)
Nondeterminism(tc, nlc) ==
    IF nlc > 0
    THEN LET q == (tc * 100) \div nlc
             r == (tc * 100) % nlc
         IN  IF 2 * r < nlc THEN q
             ELSE IF 2 * r > nlc THEN q + 1
             ELSE IF q % 2 = 0 THEN q ELSE q + 1
    ELSE -1

(* Lines 89 and 93: what one expanded configuration adds to                *)
(* transition_count, k rules having matched.                               *)
TransitionsAdded_NoImplicit(k, implicit) == k

TransitionsAdded(k, implicit) == k + (IF implicit THEN 1 ELSE 0)

(* Lines 65, 71, 94, 97-98: what it adds to non_leaf_count.                *)
NonLeafAdded_ExplicitOnly(k, implicit) == IF k > 0 THEN 1 ELSE 0

NonLeafAdded(k, implicit) == IF k > 0 \/ implicit THEN 1 ELSE 0

(* Lines 58, 109, 115: what the trace is written from.                     *)
Report_WithNextLevel ==
    [configurations |-> Append(configurations, new_configurations),
     transition_count |-> transition_count,
     non_leaf_count |-> non_leaf_count]

Report == [configurations |-> configurations,
           transition_count |-> transition_count,
           non_leaf_count |-> non_leaf_count]

----------------------------------------------------------------------------
(* Lines 49-59: the configuration is in the accept state.                  *)
Accept ==
    /\ InLoop
    /\ idx <= Len(Level)
    /\ Level[idx][2] = accept_state
    /\ outcome' = "Accepted"
    /\ message' = Append(message, AcceptMessage)
    /\ trace' = Append(trace, Report)
    /\ UNCHANGED <<defn, configurations, new_configurations, depth, idx,
                   transition_count, non_leaf_count>>

(* Lines 60-62: the configuration is in the reject state.                  *)
SkipRejected_Keep ==
    /\ outcome = "Running" /\ depth < max_depth
    /\ idx <= Len(configurations[Len(configurations)])
    /\ configurations[Len(configurations)][idx][2] # accept_state
    /\ configurations[Len(configurations)][idx][2] = reject_state
    /\ transition_count' = transition_count + 1
    /\ new_configurations' =
          Append(new_configurations, configurations[Len(configurations)][idx])
    /\ idx' = idx + 1
    /\ UNCHANGED <<defn, configurations, depth, non_leaf_count, outcome,
                   message, trace>>

SkipRejected_CountsNonLeaf ==
    /\ outcome = "Running" /\ depth < max_depth
    /\ idx <= Len(configurations[Len(configurations)])
    /\ configurations[Len(configurations)][idx][2] # accept_state
    /\ configurations[Len(configurations)][idx][2] = reject_state
    /\ transition_count' = transition_count + 1
    /\ non_leaf_count' = non_leaf_count + 1
    /\ idx' = idx + 1
    /\ UNCHANGED <<defn, configurations, new_configurations, depth, outcome,
                   message, trace>>

SkipRejected ==
    /\ InLoop
    /\ idx <= Len(Level)
    /\ Level[idx][2] # accept_state
    /\ Level[idx][2] = reject_state
    /\ transition_count' = transition_count + 1
    /\ idx' = idx + 1
    /\ UNCHANGED <<defn, configurations, new_configurations, depth,
                   non_leaf_count, outcome, message, trace>>

(* Lines 64-98: the configuration is expanded.                             *)
Expand ==
    /\ InLoop
    /\ idx <= Len(Level)
    /\ Level[idx][2] # accept_state
    /\ Level[idx][2] # reject_state
    /\ LET left  == Level[idx][1]
           state == Level[idx][2]
           right == Level[idx][3]
           head  == HeadOf(right)
           succ  == Successors(transitions, left, state, right)
           implicit == ImplicitReject(state, head)
       IN  /\ new_configurations' = new_configurations \o succ
           /\ transition_count' =
                 transition_count + TransitionsAdded(Len(succ), implicit)
           /\ non_leaf_count' =
                 non_leaf_count + NonLeafAdded(Len(succ), implicit)
    /\ idx' = idx + 1
    /\ UNCHANGED <<defn, configurations, depth, outcome, message, trace>>

(* Lines 101-110: the level produced no configuration.                     *)
LevelRejected ==
    /\ InLoop
    /\ idx > Len(Level)
    /\ new_configurations = << >>
    /\ outcome' = "Rejected"
    /\ message' = Append(message, RejectMessage)
    /\ trace' = Append(trace, Report)
    /\ UNCHANGED <<defn, configurations, new_configurations, depth, idx,
                   transition_count, non_leaf_count>>

(* Line 112, then lines 44-45 of the next iteration.                       *)
NextLevel ==
    /\ InLoop
    /\ idx > Len(Level)
    /\ new_configurations # << >>
    /\ configurations' = Append(configurations, new_configurations)
    /\ new_configurations' = << >>
    /\ depth' = depth + 1
    /\ idx' = 1
    /\ UNCHANGED <<defn, transition_count, non_leaf_count, outcome, message,
                   trace>>

(* Lines 114-115: the loop ran out.                                        *)
MaxDepthReached_NoTrace ==
    /\ outcome = "Running"
    /\ depth >= max_depth
    /\ outcome' = "DepthExhausted"
    /\ UNCHANGED <<defn, configurations, new_configurations, depth, idx,
                   transition_count, non_leaf_count, message, trace>>

MaxDepthReached ==
    /\ outcome = "Running"
    /\ depth >= LoopBound
    /\ outcome' = "DepthExhausted"
    /\ trace' = Append(trace, Report)
    /\ UNCHANGED <<defn, configurations, new_configurations, depth, idx,
                   transition_count, non_leaf_count, message>>

Next ==
    \/ Accept
    \/ SkipRejected
    \/ Expand
    \/ LevelRejected
    \/ NextLevel
    \/ MaxDepthReached

Spec == Init /\ [][Next]_vars

(* A call runs to its end: the interpreter keeps executing statements.     *)
FairSpec == Spec /\ WF_vars(Next)

----------------------------------------------------------------------------
(* Vocabulary of the properties.                                           *)

Terminal == {"Accepted", "Rejected", "DepthExhausted"}

Ended == outcome \in Terminal

(* Level d of the run, d counted from 0.                                   *)
LevelAt(d) == configurations[d + 1]

LastDepth == Len(configurations) - 1

HasAccept(d) == \E i \in 1 .. Len(LevelAt(d)) : LevelAt(d)[i][2] = accept_state

(* Number of rows of the table whose (fromState, readSymbol) is (q, h).    *)
RulesFor(q, h) ==
    Cardinality({ i \in 1 .. Len(transitions) :
                    transitions[i][1] = q /\ transitions[i][2] = h })

(* A configuration that gives the next level nothing: it is in the reject  *)
(* state or no row of the table is for its (state, head symbol).           *)
Dead(cfg) ==
    \/ cfg[2] = reject_state
    \/ RulesFor(cfg[2], IF cfg[3] = << >> THEN Blank ELSE cfg[3][1]) = 0

(* Every configuration of level d is dead and no level up to d holds an    *)
(* accepting configuration.                                                *)
DeadLevel(d) ==
    /\ \A i \in 1 .. Len(LevelAt(d)) : Dead(LevelAt(d)[i])
    /\ \A e \in 0 .. d : ~HasAccept(e)

----------------------------------------------------------------------------
(* C1: every run terminates, in exactly one of Accepted, Rejected and      *)
(* DepthExhausted (once reached, the outcome never changes and at most one *)
(* verdict message is written), and the level loop runs at most max_depth  *)
(* times: its body only runs with depth < max_depth, and the run never     *)
(* holds more than max_depth + 1 levels.                                   *)
C1_TerminatesWithinMaxDepth ==
    /\ <>Ended
    /\ [](outcome \in Terminal \cup {"Running"})
    /\ [](depth <= max_depth /\ LastDepth = depth /\ Len(message) <= 1)
    /\ [][(outcome = "Running" /\ outcome' # "DepthExhausted") => depth < max_depth]_vars
    /\ [][Ended => outcome' = outcome]_vars

C1_Witness == outcome = "DepthExhausted" /\ depth = max_depth /\ max_depth = MaxDepth

(* C2: a run that reports Accepted reports the depth d of the current      *)
(* level, level d holds a configuration in the accept state, and no level  *)
(* before d holds one.                                                     *)
C2_AcceptedAtShallowestDepth ==
    outcome = "Accepted" =>
        /\ Len(message) = 1
        /\ message[1].verdict = "Accepted"
        /\ LET d == message[1].transitions
           IN  /\ d = LastDepth
               /\ message[1].depth_of_tree = d
               /\ HasAccept(d)
               /\ \A e \in 0 .. d - 1 : ~HasAccept(e)

C2_Witness ==
    /\ outcome = "Accepted"
    /\ message[1].transitions = 2
    /\ Len(LevelAt(2)) > 1

(* C3 as stated: a run ends Rejected exactly when some level it built is   *)
(* dead (no acceptance up to it), and then reports that level's depth.     *)
C3_RejectedIffDeadLevel ==
    Ended =>
        /\ outcome = "Rejected" <=> \E d \in 0 .. LastDepth : DeadLevel(d)
        /\ outcome = "Rejected" =>
              /\ DeadLevel(message[1].transitions)
              /\ message[1].verdict = "Rejected"

(* C3, amended: a run ends Rejected exactly when some level d < max_depth  *)
(* is dead (no acceptance up to it), and then reports that depth d.        *)
C3_RejectedIffDeadLevelBelowMaxDepth ==
    Ended =>
        /\ outcome = "Rejected" <=>
              \E d \in 0 .. LastDepth : d < max_depth /\ DeadLevel(d)
        /\ outcome = "Rejected" =>
              /\ Len(message) = 1
              /\ message[1].verdict = "Rejected"
              /\ message[1].transitions = LastDepth
              /\ message[1].depth_of_tree = LastDepth
              /\ message[1].transitions < max_depth
              /\ DeadLevel(message[1].transitions)

C3_Witness ==
    /\ outcome = "Rejected"
    /\ message[1].transitions = 2
    /\ \E i \in 1 .. Len(LevelAt(2)) : LevelAt(2)[i][2] = reject_state
    /\ \E i \in 1 .. Len(LevelAt(2)) : LevelAt(2)[i][2] # reject_state

(* C4: transition_count >= non_leaf_count in every state of a run, and     *)
(* both are 0 when the run starts.                                         *)
C4_TransitionsAtLeastNonLeaves ==
    /\ transition_count >= non_leaf_count
    /\ (outcome = "Running" /\ depth = 0 /\ idx = 1) =>
          (transition_count = 0 /\ non_leaf_count = 0)

C4_Witness ==
    /\ non_leaf_count >= 3
    /\ transition_count > non_leaf_count
    /\ depth >= 2

C8_APlusAcceptsInNPlusOne ==
    LET n == Len(input_string)
    IN  (/\ Ended
         /\ transitions = APlus
         /\ start_state = "q0"
         /\ n >= 1
         /\ \A i \in 1 .. n : input_string[i] = "a"
         /\ n + 1 < max_depth)
        => /\ outcome = "Accepted"
           /\ message = << [verdict |-> "Accepted", transitions |-> n + 1,
                            depth_of_tree |-> n + 1] >>
           /\ LastDepth = n + 1
           /\ (input_string = <<"a", "a", "a">> /\ max_depth = DefaultMaxDepth)
                 => message[1].transitions = 4

C8_Witness ==
    /\ Ended
    /\ transitions = APlus
    /\ input_string = <<"a", "a", "a">>
    /\ max_depth = DefaultMaxDepth
    /\ message[1].depth_of_tree = 4

(* C9: with no rule for (start state, first input symbol), a start state   *)
(* that is neither the accept nor the reject state and max_depth >= 1, the *)
(* run ends Rejected in 0 transitions with level 0 alone retained,         *)
(* transition_count = 1, non_leaf_count = 1 and nondeterminism 1.00.       *)
C9_NoRuleRejectsAtDepthZero ==
    (/\ Ended
     /\ input_string # << >>
     /\ RulesFor(start_state, input_string[1]) = 0
     /\ start_state \notin {accept_state, reject_state}
     /\ max_depth >= 1)
    => /\ outcome = "Rejected"
       /\ message = << [verdict |-> "Rejected", transitions |-> 0,
                        depth_of_tree |-> 0] >>
       /\ Len(trace) = 1
       /\ trace[1].configurations =
             << << << << >>, start_state, input_string >> >> >>
       /\ trace[1].transition_count = 1
       /\ trace[1].non_leaf_count = 1
       /\ Nondeterminism(trace[1].transition_count, trace[1].non_leaf_count) = 100

C9_Witness ==
    /\ outcome = "Rejected"
    /\ input_string = << "a" >>
    /\ transitions # << >>
    /\ RulesFor(start_state, "a") = 0
    /\ start_state = "q0"
    /\ transition_count = 1

(* The configuration the inner loop is at.                                 *)
Current == LevelAt(LastDepth)[idx]

(* C10: expanding a configuration in a non-halting state for which k >= 1  *)
(* rules match appends k configurations to the next level, adds k to       *)
(* transition_count and 1 to non_leaf_count; with two rules for (start     *)
(* state, the one input symbol), level 1 has 2 configurations, and         *)
(* transition_count = 2 and non_leaf_count = 1 once level 0 is processed.  *)
C10_ExpandAddsOnePerMatchingRule ==
    /\ [][(/\ outcome = "Running" /\ idx' = idx + 1
           /\ Current[2] \notin {accept_state, reject_state}
           /\ RulesFor(Current[2], HeadOf(Current[3])) >= 1)
          => LET k == RulesFor(Current[2], HeadOf(Current[3]))
             IN  /\ Len(new_configurations') = Len(new_configurations) + k
                 /\ SubSeq(new_configurations', 1, Len(new_configurations))
                      = new_configurations
                 /\ transition_count' = transition_count + k
                 /\ non_leaf_count' = non_leaf_count + 1]_vars
    /\ []((/\ Len(input_string) = 1
           /\ start_state \notin {accept_state, reject_state}
           /\ RulesFor(start_state, input_string[1]) = 2)
          => /\ LastDepth >= 1 => Len(LevelAt(1)) = 2
             /\ (\/ (outcome = "Running" /\ depth = 0 /\ idx = 2)
                 \/ (depth = 1 /\ idx = 1))
                   => (transition_count = 2 /\ non_leaf_count = 1))

C10_Witness ==
    /\ Len(input_string) = 1
    /\ start_state = "q0"
    /\ RulesFor(start_state, input_string[1]) = 2
    /\ LastDepth = 1
    /\ Len(LevelAt(1)) = 2
    /\ LevelAt(1)[1] # LevelAt(1)[2]
    /\ transition_count = 2
    /\ non_leaf_count = 1

(* C11 as stated: a run that ends DepthExhausted has written no verdict    *)
(* and no trace.                                                           *)
C11_DepthExhaustedWritesNothing ==
    outcome = "DepthExhausted" => (message = << >> /\ trace = << >>)

(* C11, amended: a run that ends DepthExhausted has expanded max_depth     *)
(* levels and written no verdict, and has written the trace once: levels   *)
(* 0 .. max_depth and the two counters.                                    *)
C11_DepthExhaustedWritesTraceOnly ==
    outcome = "DepthExhausted" =>
        /\ message = << >>
        /\ LastDepth = max_depth
        /\ \A d \in 0 .. LastDepth : LevelAt(d) # << >>
        /\ trace = << [configurations |-> configurations,
                       transition_count |-> transition_count,
                       non_leaf_count |-> non_leaf_count] >>
        /\ Len(trace[1].configurations) = max_depth + 1

C11_Witness ==
    /\ outcome = "DepthExhausted"
    /\ max_depth >= 2
    /\ Len(trace) = 1
    /\ Len(trace[1].configurations) = max_depth + 1
    /\ trace[1].transition_count >= 2

----------------------------------------------------------------------------
(* Vocabulary of the properties of one step of the inner loop.             *)

(* The symbol under the head of configuration cfg.                         *)
HeadSymbol(cfg) == IF cfg[3] = << >> THEN Blank ELSE cfg[3][1]

(* The rows of the table that match configuration cfg.                     *)
MatchingRows(cfg) ==
    { i \in 1 .. Len(transitions) :
        transitions[i][1] = cfg[2] /\ transitions[i][2] = HeadSymbol(cfg) }

(* The step processes a configuration in a state that is neither the       *)
(* accept nor the reject state.                                            *)
ExpandStep ==
    /\ outcome = "Running"
    /\ idx' = idx + 1
    /\ Current[2] \notin {accept_state, reject_state}

(* The configuration the step appended for row i of the table: matching    *)
(* rows append in table order.                                             *)
AppendedFor(i) ==
    new_configurations'[Len(new_configurations)
                          + Cardinality({ j \in MatchingRows(Current) : j <= i })]

(* The tail of the right tape, or one blank when the tail is empty.        *)
TailOrBlank(right) == IF Len(right) > 1 THEN Tail(right) ELSE << Blank >>

(* The tail of the right tape, empty when the right tape has at most one   *)
(* symbol.                                                                 *)
TailOrEmpty(right) == IF Len(right) > 1 THEN Tail(right) ELSE << >>

(* C12 as stated: a Left move gives (left without its last symbol,         *)
(* [last symbol of left, w] ++ rest) or, at the origin, (empty, [w] ++     *)
(* rest), rest being the tail of right or one blank when the tail is empty. *)
C12_LeftMoveBlankRest ==
    [][ExpandStep =>
        \A i \in MatchingRows(Current) :
            transitions[i][5] = "L" =>
                LET left == Current[1]
                    w    == transitions[i][4]
                    rest == TailOrBlank(Current[3])
                IN  IF left # << >>
                    THEN /\ AppendedFor(i)[1] = SubSeq(left, 1, Len(left) - 1)
                         /\ AppendedFor(i)[3] = << left[Len(left)], w >> \o rest
                    ELSE /\ AppendedFor(i)[1] = << >>
                         /\ AppendedFor(i)[3] = << w >> \o rest]_vars

(* C12, amended: the same, rest being the tail of right, empty when right  *)
(* has at most one symbol (no blank is added).                             *)
C12_LeftMoveEmptyRest ==
    [][ExpandStep =>
        \A i \in MatchingRows(Current) :
            transitions[i][5] = "L" =>
                LET left == Current[1]
                    w    == transitions[i][4]
                    rest == TailOrEmpty(Current[3])
                IN  IF left # << >>
                    THEN /\ AppendedFor(i)[1] = SubSeq(left, 1, Len(left) - 1)
                         /\ AppendedFor(i)[3] = << left[Len(left)], w >> \o rest
                    ELSE /\ AppendedFor(i)[1] = << >>
                         /\ AppendedFor(i)[3] = << w >> \o rest]_vars

(* A Left move from ("a", q0, "_") produced ("", q0, "aa"), and one at the *)
(* origin produced an empty left tape.                                     *)
C12_Witness ==
    /\ input_string = << "a" >>
    /\ start_state = "q0"
    /\ transitions = << <<"q0", "a", "q0", "a", "R">>,
                        <<"q0", "a", "q0", "b", "L">>,
                        <<"q0", "_", "q0", "a", "L">> >>
    /\ LastDepth >= 2
    /\ LevelAt(1) = << << <<"a">>, "q0", <<"_">> >>, << << >>, "q0", <<"b">> >> >>
    /\ LevelAt(2) = << << << >>, "q0", <<"a", "a">> >> >>

(* C13 as stated: a move that is neither "L" nor "R" gives (left,          *)
(* [w] ++ rest), rest being the tail of right or one blank when the tail   *)
(* is empty.                                                               *)
C13_StayBlankRest ==
    [][ExpandStep =>
        \A i \in MatchingRows(Current) :
            transitions[i][5] \notin {"L", "R"} =>
                /\ AppendedFor(i)[1] = Current[1]
                /\ AppendedFor(i)[3] =
                      << transitions[i][4] >> \o TailOrBlank(Current[3])]_vars

(* C13, amended: the same, rest being the tail of right, empty when right  *)
(* has at most one symbol (no blank is added).                             *)
C13_StayEmptyRest ==
    [][ExpandStep =>
        \A i \in MatchingRows(Current) :
            transitions[i][5] \notin {"L", "R"} =>
                /\ AppendedFor(i)[1] = Current[1]
                /\ AppendedFor(i)[3] =
                      << transitions[i][4] >> \o TailOrEmpty(Current[3])]_vars

(* Both stay tokens of the table acted, one on a right tape of one symbol  *)
(* and a non-empty left tape.                                              *)
C13_Witness ==
    /\ input_string = << "a", "b" >>
    /\ start_state = "q0"
    /\ transitions = << <<"q0", "a", "q0", "a", "R">>,
                        <<"q0", "a", "q0", "b", "S">>,
                        <<"q0", "b", "qacc", "b", "N">> >>
    /\ LastDepth >= 2
    /\ LevelAt(1) = << << <<"a">>, "q0", <<"b">> >>,
                       << << >>, "q0", <<"b", "b">> >> >>
    /\ LevelAt(2) = << << <<"a">>, "qacc", <<"b">> >>,
                       << << >>, "qacc", <<"b", "b">> >> >>

C15_ImplicitRejectIffNoRuleMatches ==
    [][ExpandStep =>
        LET k == Cardinality(MatchingRows(Current))
        IN  /\ k = 0 => /\ transition_count' = transition_count + 1
                        /\ non_leaf_count' = non_leaf_count + 1
                        /\ new_configurations' = new_configurations
            /\ k >= 1 => /\ transition_count' = transition_count + k
                         /\ non_leaf_count' = non_leaf_count + 1]_vars

(* An implicit reject fired in level 1, beside a configuration that had a  *)
(* matching row.                                                           *)
C15_Witness ==
    /\ outcome = "Running"
    /\ depth = 1
    /\ idx = 3
    /\ start_state = "q0"
    /\ Cardinality(MatchingRows(LevelAt(1)[1])) >= 1
    /\ Cardinality(MatchingRows(LevelAt(1)[2])) = 0
    /\ LevelAt(1)[2][2] = "q0"
    /\ Len(new_configurations) = Cardinality(MatchingRows(LevelAt(1)[1]))
    /\ transition_count = Len(LevelAt(1)) + Len(new_configurations) + 1

(* C16: the step that meets the first configuration in the accept state,   *)
(* in level order, of level d ends the run Accepted: it changes neither    *)
(* counter nor the position in the level, the trace it writes holds levels *)
(* 0 .. d (not the next level under construction) and the counters, and    *)
(* nothing changes afterwards.                                             *)
C16_AcceptShortCircuits ==
    /\ [][(outcome = "Running" /\ outcome' = "Accepted") =>
            /\ Current[2] = accept_state
            /\ \A j \in 1 .. idx - 1 : LevelAt(LastDepth)[j][2] # accept_state
            /\ idx' = idx
            /\ transition_count' = transition_count
            /\ non_leaf_count' = non_leaf_count
            /\ configurations' = configurations
            /\ Len(trace') = 1
            /\ trace'[1].configurations = configurations
            /\ Len(trace'[1].configurations) = depth + 1
            /\ trace'[1].transition_count = transition_count
            /\ trace'[1].non_leaf_count = non_leaf_count]_vars
    /\ [][(outcome = "Running" /\ idx <= Len(LevelAt(LastDepth))
           /\ depth < max_depth /\ Current[2] = accept_state)
          => outcome' = "Accepted"]_vars
    /\ [][outcome = "Accepted" => UNCHANGED vars]_vars

(* Accepted on the first configuration of level 1 with a sibling after it  *)
(* unexamined, or on the second with the next level partly built.          *)
C16_Witness ==
    /\ outcome = "Accepted"
    /\ LastDepth = 1
    /\ \/ idx < Len(LevelAt(1))
       \/ new_configurations # << >>

(* C17: processing a configuration in the reject state adds exactly 1 to   *)
(* transition_count and leaves non_leaf_count and the next level           *)
(* unchanged, whatever rows the table has for the reject state.            *)
C17_RejectedConfigurationNotExpanded ==
    [][(/\ outcome = "Running"
        /\ idx' = idx + 1
        /\ Current[2] = reject_state)
       => /\ transition_count' = transition_count + 1
          /\ non_leaf_count' = non_leaf_count
          /\ new_configurations' = new_configurations
          /\ configurations' = configurations
          /\ outcome' = "Running"]_vars

(* A configuration in the reject state with a matching row in the table    *)
(* was processed in level 1.                                               *)
C17_Witness ==
    /\ depth = 1
    /\ idx >= 2
    /\ start_state = "q0"
    /\ LevelAt(1)[1][2] = reject_state
    /\ Cardinality(MatchingRows(LevelAt(1)[1])) >= 1
    /\ new_configurations = << >>

----------------------------------------------------------------------------
(* Vocabulary of the properties of the run so far.                         *)

(* The configurations the inner loop has processed: every configuration of *)
(* the levels before the last, and those before position idx of the last.  *)
RECURSIVE ProcessedIn(_, _)
ProcessedIn(level, n) ==
    IF n = 0 THEN << >> ELSE Append(ProcessedIn(level, n - 1), level[n])

RECURSIVE ProcessedUpTo(_)
ProcessedUpTo(d) ==
    IF d = LastDepth THEN ProcessedIn(LevelAt(d), idx - 1)
    ELSE LevelAt(d) \o ProcessedUpTo(d + 1)

Processed == ProcessedUpTo(0)

(* Explicit rule applications so far: each appended one configuration, to  *)
(* a level after level 0 or to the level under construction.               *)
RECURSIVE ConfigurationsFrom(_)
ConfigurationsFrom(d) ==
    IF d > LastDepth THEN 0 ELSE Len(LevelAt(d)) + ConfigurationsFrom(d + 1)

AppliedSoFar == ConfigurationsFrom(1) + Len(new_configurations)

(* Implicit rejects so far: processed configurations in a state other than *)
(* the accept and reject states that no row matches.                       *)
ImplicitSoFar ==
    Cardinality({ n \in 1 .. Len(Processed) :
                    /\ Processed[n][2] \notin {accept_state, reject_state}
                    /\ MatchingRows(Processed[n]) = {} })

(* The successors of configuration cfg by rows i, i+1, ... of the table,   *)
(* in that order; none for a configuration in the accept or reject state.  *)
RECURSIVE ChildrenFrom(_, _)
ChildrenFrom(cfg, i) ==
    IF i > Len(transitions) \/ cfg[2] \in {accept_state, reject_state}
    THEN << >>
    ELSE (IF i \in MatchingRows(cfg)
          THEN << Apply(transitions[i], cfg[1], cfg[3]) >>
          ELSE << >>)
         \o ChildrenFrom(cfg, i + 1)

(* The successors of the first n configurations of a level, parent by      *)
(* parent in level order.                                                  *)
RECURSIVE ChildrenOfFirst(_, _)
ChildrenOfFirst(level, n) ==
    IF n = 0 THEN << >>
    ELSE ChildrenOfFirst(level, n - 1) \o ChildrenFrom(level[n], 1)

(* The start, accept and reject states of the definition are pairwise      *)
(* distinct.                                                               *)
DistinctStates ==
    /\ start_state \notin {accept_state, reject_state}
    /\ accept_state # reject_state

(* C18: at every point of a run (of a definition with pairwise distinct    *)
(* start, accept and reject states) transition_count is the number of      *)
(* explicit rule applications so far plus the number of implicit rejects   *)
(* so far.                                                                 *)
C18_CountsApplicationsAndImplicitRejects ==
    DistinctStates => transition_count = AppliedSoFar + ImplicitSoFar

(* C19: every level after level 0 is the concatenation, over the           *)
(* configurations of the level before it in level order, of each one's     *)
(* successors in table order; so is the level under construction, over the *)
(* configurations processed so far.                                        *)
C19_LevelOrderIsParentThenRuleOrder ==
    /\ \A d \in 0 .. LastDepth - 1 :
          LevelAt(d + 1) = ChildrenOfFirst(LevelAt(d), Len(LevelAt(d)))
    /\ outcome = "Running" =>
          new_configurations = ChildrenOfFirst(LevelAt(LastDepth), idx - 1)

(* Level 2 holds successors of two parents, the first parent having two    *)
(* successors by different rows, all distinct.                             *)
C19_Witness ==
    /\ LastDepth >= 2
    /\ Len(LevelAt(1)) >= 2
    /\ Len(ChildrenFrom(LevelAt(1)[1], 1)) >= 2
    /\ Len(ChildrenFrom(LevelAt(1)[2], 1)) >= 1
    /\ \A i, j \in 1 .. Len(LevelAt(2)) : i # j => LevelAt(2)[i] # LevelAt(2)[j]

(* C20: a run (of a definition with pairwise distinct start, accept and    *)
(* reject states) does not end DepthExhausted with a configuration in the  *)
(* accept state in one of its levels 0 .. max_depth.                       *)
C20_NoAcceptingLevelWhenDepthExhausted ==
    (DistinctStates /\ outcome = "DepthExhausted")
        => \A d \in 0 .. LastDepth : ~HasAccept(d)

====
